---- MODULE Spec2Model ----
(***************************************************************************)
(* Model of the pharmacy directory backend: the Pharmacy schema            *)
(* (src/models/pharmacy.js) and the five route handlers                    *)
(* (src/routes/pharmacies.js).  The document store is the collection the   *)
(* schema is registered on; it is taken to be reachable (no connection     *)
(* failure) and its unique index on licenseNumber to be built.             *)
(*                                                                         *)
(* Strings are sequences of one-character strings.  An optional value is a *)
(* sequence of length at most one: <<>> is "undefined", <<v>> is v.        *)
(*                                                                         *)
(* A handler is atomic up to its first await on the store and between two  *)
(* awaits: POST and the two GETs are one step, PUT and DELETE are two      *)
(* (findById, then the write), and other requests run between the two.     *)
(* PUT reads req.body only after findById has returned, so the body is     *)
(* drawn in the second step.                                               *)
(***************************************************************************)
EXTENDS Integers, Sequences, FiniteSets, Bags, TLC

\* ------------------------------------------------------------------ bounds
MaxRecords == 2
MaxClock == 3
MaxInFlight == 2

\* ----------------------------------------------------------------- strings
None == <<>>
Some(v) == <<v>>
IsSome(o) == Len(o) = 1
Val(o) == o[1]

Code(c) ==
  CASE c = " " -> 32 [] c = "(" -> 40 [] c = "." -> 46
    [] c = "0" -> 48 [] c = "1" -> 49 [] c = "2" -> 50 [] c = "3" -> 51
    [] c = "4" -> 52 [] c = "5" -> 53 [] c = "6" -> 54 [] c = "7" -> 55
    [] c = "8" -> 56 [] c = "9" -> 57 [] c = ":" -> 58 [] c = "@" -> 64
    [] c = "A" -> 65 [] c = "B" -> 66 [] c = "C" -> 67 [] c = "L" -> 76
    [] c = "S" -> 83 [] c = "U" -> 85
    [] c = "a" -> 97 [] c = "b" -> 98 [] c = "c" -> 99 [] c = "l" -> 108
    [] c = "s" -> 115 [] c = "u" -> 117 [] c = "w" -> 119

IsDigit(c) == Code(c) >= 48 /\ Code(c) <= 57
IsSpace(c) == c = " "

LowerChar(c) ==
  IF Code(c) >= 65 /\ Code(c) <= 90
    THEN (CASE c = "A" -> "a" [] c = "B" -> "b" [] c = "C" -> "c"
            [] c = "L" -> "l" [] c = "S" -> "s" [] c = "U" -> "u")
    ELSE c

ToLower(s) == [i \in 1..Len(s) |-> LowerChar(s[i])]

RECURSIVE TrimLeft(_)
TrimLeft(s) == IF s # <<>> /\ IsSpace(Head(s)) THEN TrimLeft(Tail(s)) ELSE s

RECURSIVE TrimRight(_)
TrimRight(s) ==
  IF s # <<>> /\ IsSpace(s[Len(s)]) THEN TrimRight(SubSeq(s, 1, Len(s) - 1)) ELSE s

Trim(s) == TrimRight(TrimLeft(s))

\* binary (code point) comparison, as the store's default collation sorts strings
RECURSIVE StrLeq(_, _)
StrLeq(a, b) ==
  IF a = <<>> THEN TRUE
  ELSE IF b = <<>> THEN FALSE
  ELSE IF Code(Head(a)) < Code(Head(b)) THEN TRUE
  ELSE IF Code(Head(a)) > Code(Head(b)) THEN FALSE
  ELSE StrLeq(Tail(a), Tail(b))

\* ----------------------------------------------------------------- regexes
\* /\S+@\S+\.\S+/ : unanchored, so it matches if some "@" has a non-space
\* before it and is followed by a non-empty run of non-spaces, a ".", and
\* one more non-space.
emailMatch(s) ==
  \E i \in 2..Len(s) : \E k \in (i + 2)..(Len(s) - 1) :
    /\ s[i] = "@"
    /\ ~IsSpace(s[i - 1])
    /\ s[k] = "."
    /\ \A j \in (i + 1)..(k - 1) : ~IsSpace(s[j])
    /\ ~IsSpace(s[k + 1])

\* /^([01]\d|2[0-3]):([0-5]\d)$/
timeMatch(s) ==
  /\ Len(s) = 5
  /\ \/ (s[1] \in {"0", "1"} /\ IsDigit(s[2]))
     \/ (s[1] = "2" /\ s[2] \in {"0", "1", "2", "3"})
  /\ s[3] = ":"
  /\ s[4] \in {"0", "1", "2", "3", "4", "5"}
  /\ IsDigit(s[5])

\* new RegExp(q, 'i') for query text over letters, "." and "(": a "(" that is
\* never closed is a SyntaxError, "." matches any character, a letter matches
\* itself in either case; the match is a search, not anchored.
RegExpCompiles(q) == \A i \in 1..Len(q) : q[i] # "("

RegExpTest(q, s) ==
  \E o \in 0..(Len(s) - Len(q)) :
    \A j \in 1..Len(q) : q[j] = "." \/ LowerChar(q[j]) = LowerChar(s[o + j])

\* ------------------------------------------------------------------ schema
Fields ==
  {"name", "address", "phoneNumber", "email", "website", "licenseNumber",
   "servicesOffered", "openingHours", "isActive"}

DefaultCountry == <<"U", "S", "A">>

TrimOpt(o) == IF IsSome(o) THEN Some(Trim(Val(o))) ELSE None

\* addressSchema: every string trimmed, country defaulted
castAddress(a) ==
  [street  |-> TrimOpt(a.street),
   city    |-> TrimOpt(a.city),
   state   |-> TrimOpt(a.state),
   zipCode |-> TrimOpt(a.zipCode),
   country |-> IF IsSome(a.country) THEN TrimOpt(a.country) ELSE Some(DefaultCountry)]

\* pharmacySchema setters: trim on the strings, lowercase on email
castBody(b) ==
  [name            |-> TrimOpt(b.name),
   address         |-> IF IsSome(b.address) THEN Some(castAddress(Val(b.address))) ELSE None,
   phoneNumber     |-> TrimOpt(b.phoneNumber),
   email           |-> IF IsSome(b.email) THEN Some(ToLower(Trim(Val(b.email)))) ELSE None,
   website         |-> TrimOpt(b.website),
   licenseNumber   |-> TrimOpt(b.licenseNumber),
   servicesOffered |-> IF IsSome(b.servicesOffered)
                         THEN Some([i \in 1..Len(Val(b.servicesOffered)) |->
                                      Trim(Val(b.servicesOffered)[i])])
                         ELSE None,
   openingHours    |-> b.openingHours,
   isActive        |-> b.isActive]

requiredString(o) == IsSome(o) /\ Val(o) # <<>>

addressValid(a) ==
  /\ requiredString(a.street)
  /\ requiredString(a.city)
  /\ requiredString(a.state)
  /\ requiredString(a.zipCode)
  /\ requiredString(a.country)

openingHoursValid(h) ==
  /\ IsSome(h.dayOfWeek) /\ Val(h.dayOfWeek) >= 0 /\ Val(h.dayOfWeek) <= 6
  /\ requiredString(h.openTime) /\ timeMatch(Val(h.openTime))
  /\ requiredString(h.closeTime) /\ timeMatch(Val(h.closeTime))

\* the validators of one path of pharmacySchema, on a cast value
pathValid(f, o) ==
  CASE f = "name"          -> requiredString(o)
    [] f = "address"       -> IsSome(o) /\ addressValid(Val(o))
    [] f = "phoneNumber"   -> requiredString(o)
    [] f = "licenseNumber" -> requiredString(o)
    [] f = "email"         -> (IsSome(o) /\ Val(o) # <<>>) => emailMatch(Val(o))
    [] f = "openingHours"  ->
         IsSome(o) => \A i \in 1..Len(Val(o)) : openingHoursValid(Val(o)[i])
    [] OTHER               -> TRUE

\* err.errors of a ValidationError: the paths among `paths` that fail
validationErrors(c, paths) == {f \in paths : ~pathValid(f, c[f])}

\* ------------------------------------------------------------------- store
VARIABLES
  store,     \* the collection: store[i] is the document with _id i; documents
             \* are only ever appended or updated in place
  now,       \* the clock the timestamps are read from
  inflight,  \* the handler invocations waiting on findById, as a bag of
             \* [op, n, loaded]: the handler, the _id it looked up, and (for
             \* DELETE) isActive of the document it loaded
  out        \* the response sent last: handler, req.params.id, status, msg

vars == <<store, now, inflight, out>>

Ids == 1..Len(store)

\* a unique index that skips soft-deleted documents
duplicateKey_activeOnly(st, lic, self) ==
  \E i \in 1..Len(st) :
    i # self /\ st[i].isActive = Some(TRUE) /\ st[i].licenseNumber = lic

\* the unique index on licenseNumber: some other document holds the value
duplicateKey(st, lic, self) ==
  \E i \in 1..Len(st) : i # self /\ st[i].licenseNumber = lic

NoError == [name |-> "", code |-> 0, kind |-> ""]
ValidationError == [name |-> "ValidationError", code |-> 0, kind |-> ""]
DuplicateKeyError == [name |-> "MongoServerError", code |-> 11000, kind |-> ""]
CastError == [name |-> "CastError", code |-> 0, kind |-> "ObjectId"]

\* new Pharmacy({...}): the eight fields the handler copies from req.body, cast,
\* with the schema defaults; req.body.isActive is not copied
newPharmacy(b) ==
  LET c == castBody(b) IN
  [c EXCEPT !.servicesOffered = IF IsSome(@) THEN @ ELSE Some(<<>>),
            !.openingHours    = IF IsSome(@) THEN @ ELSE Some(<<>>),
            !.isActive        = Some(TRUE)]

DocFields == Fields \cup {"createdAt", "updatedAt"}

\* timestamps: true
stamp(d, created, updated) ==
  [f \in DocFields |->
     IF f = "createdAt" THEN created
     ELSE IF f = "updatedAt" THEN updated
     ELSE d[f]]

\* save() with no unique index behind it
save_noIndex(st, d, t) ==
  IF validationErrors(d, Fields) # {}
    THEN [err |-> ValidationError, errors |-> validationErrors(d, Fields), store |-> st]
  ELSE [err |-> NoError, errors |-> {}, store |-> Append(st, stamp(d, t, t))]

\* save() that consults the index before it validates
save_indexFirst(st, d, t) ==
  IF duplicateKey(st, d.licenseNumber, 0)
    THEN [err |-> DuplicateKeyError, errors |-> {}, store |-> st]
  ELSE IF validationErrors(d, Fields) # {}
    THEN [err |-> ValidationError, errors |-> validationErrors(d, Fields), store |-> st]
  ELSE [err |-> NoError, errors |-> {}, store |-> Append(st, stamp(d, t, t))]

\* document.save() of a new document: validate, then insert under the index
save(st, d, t) ==
  IF validationErrors(d, Fields) # {}
    THEN [err |-> ValidationError, errors |-> validationErrors(d, Fields), store |-> st]
  ELSE IF duplicateKey(st, d.licenseNumber, 0)
    THEN [err |-> DuplicateKeyError, errors |-> {}, store |-> st]
  ELSE [err |-> NoError, errors |-> {}, store |-> Append(st, stamp(d, t, t))]

\* Pharmacy.findById(id): a malformed id fails the cast to ObjectId
findById(st, id) ==
  IF ~id.wellFormed THEN [err |-> CastError, found |-> FALSE]
  ELSE [err |-> NoError, found |-> id.n \in 1..Len(st)]

\* the keys of req.body
keys(b) == {f \in Fields : IsSome(b[f])}

\* the update applied as a replacement: what the body omits is cleared
applySet_replace(d, c, ks, t) ==
  [f \in DOMAIN d |->
     IF f \in ks THEN c[f]
     ELSE IF f = "updatedAt" THEN t
     ELSE IF f = "createdAt" THEN d[f]
     ELSE None]

\* { $set: updateData } applied to one document
applySet(d, c, ks, t) ==
  [f \in DOMAIN d |->
     IF f \in ks THEN c[f]
     ELSE IF f = "updatedAt" THEN t
     ELSE d[f]]

\* findByIdAndUpdate whose uniqueness check counts the document itself
findByIdAndUpdate_dupSelf(st, i, b, t) ==
  LET c  == castBody(b)
      ks == keys(b)
  IN
  IF validationErrors(c, ks) # {}
    THEN [err |-> ValidationError, errors |-> validationErrors(c, ks), store |-> st]
  ELSE IF "licenseNumber" \in ks /\ duplicateKey(st, c.licenseNumber, 0)
    THEN [err |-> DuplicateKeyError, errors |-> {}, store |-> st]
  ELSE [err |-> NoError, errors |-> {},
        store |-> [st EXCEPT ![i] = applySet(@, c, ks, t)]]

\* findByIdAndUpdate without runValidators
findByIdAndUpdate_noValidators(st, i, b, t) ==
  LET c  == castBody(b)
      ks == keys(b)
  IN
  IF "licenseNumber" \in ks /\ duplicateKey(st, c.licenseNumber, i)
    THEN [err |-> DuplicateKeyError, errors |-> {}, store |-> st]
  ELSE [err |-> NoError, errors |-> {},
        store |-> [st EXCEPT ![i] = applySet(@, c, ks, t)]]

\* Pharmacy.findByIdAndUpdate(id, {$set: updateData}, {new, runValidators}):
\* the update is cast, the validators of the paths it sets are run, and the
\* store applies it to the document atomically under the unique index
findByIdAndUpdate(st, i, b, t) ==
  LET c  == castBody(b)
      ks == keys(b)
  IN
  IF validationErrors(c, ks) # {}
    THEN [err |-> ValidationError, errors |-> validationErrors(c, ks), store |-> st]
  ELSE IF "licenseNumber" \in ks /\ duplicateKey(st, c.licenseNumber, i)
    THEN [err |-> DuplicateKeyError, errors |-> {}, store |-> st]
  ELSE [err |-> NoError, errors |-> {},
        store |-> [st EXCEPT ![i] = applySet(@, c, ks, t)]]

\* a DELETE that flips isActive instead of clearing it
saveInactive_toggle(st, i, wasActive, t) ==
  [st EXCEPT ![i] = [@ EXCEPT !.isActive = Some(~wasActive), !.updatedAt = t]]

\* pharmacy.isActive = false; pharmacy.save(): only a modified path is
\* written, so a document loaded inactive is not written at all
saveInactive(st, i, wasActive, t) ==
  IF wasActive
    THEN [st EXCEPT ![i] = [@ EXCEPT !.isActive = Some(FALSE), !.updatedAt = t]]
    ELSE st

\* Pharmacy.find(filter).sort({name: 1})
matchesFilter(d, q) ==
  /\ d.isActive = Some(TRUE)
  /\ IsSome(q.city) /\ Val(q.city) # <<>> =>
       RegExpTest(Val(q.city), Val(Val(d.address).city))
  /\ IsSome(q.service) /\ Val(q.service) # <<>> =>
       \E k \in 1..Len(Val(d.servicesOffered)) :
         RegExpTest(Val(q.service), Val(d.servicesOffered)[k])

\* every order of the matching documents that is ascending in name
findSorted(st, q) ==
  LET M == {i \in 1..Len(st) : matchesFilter(st[i], q)}
      n == Cardinality(M)
  IN {[k \in 1..n |-> st[o[k]]] :
        o \in {o \in [1..n -> M] :
                 /\ \A a, b \in 1..n : a # b => o[a] # o[b]
                 /\ \A a \in 1..(n - 1) : StrLeq(Val(st[o[a]].name), Val(st[o[a + 1]].name))}}

\* ---------------------------------------------------------------- requests
Str1 == <<"1">>
NameA == <<"a">>
NameB == <<"B">>
NamePadded == <<" ", "a", " ">>
Lic1 == <<"L", "1">>
Lic2 == <<"L", "2">>
Lic1Padded == <<" ", "L", "1">>
CityAb == <<"A", "b">>
CityC == <<"c">>
EmailOk == <<"A", "@", "b", ".", "c">>
EmailBad == <<"a", "b">>
ServiceAb == <<"a", "b">>
Web == <<"w">>
NineAm == <<"0", "9", ":", "0", "0">>
SixPm == <<"1", "8", ":", "0", "0">>
TwentyFive == <<"2", "5", ":", "0", "0">>

Addr1 ==
  [street |-> Some(Str1), city |-> Some(CityAb), state |-> Some(Str1),
   zipCode |-> Some(Str1), country |-> None]
Addr2 ==
  [street |-> Some(Str1), city |-> Some(CityC), state |-> Some(Str1),
   zipCode |-> Some(Str1), country |-> Some(<<"C", "A">>)]
AddrNoStreet == [Addr1 EXCEPT !.street = None]

HoursOk == <<[dayOfWeek |-> Some(0), openTime |-> Some(NineAm), closeTime |-> Some(SixPm)]>>
HoursBadDay == <<[dayOfWeek |-> Some(7), openTime |-> Some(NineAm), closeTime |-> Some(SixPm)]>>
HoursBadTime == <<[dayOfWeek |-> Some(6), openTime |-> Some(TwentyFive), closeTime |-> Some(SixPm)]>>

EmptyBody == [f \in Fields |-> None]

Patch(b, m) == [f \in Fields |-> IF f \in DOMAIN m THEN m[f] ELSE b[f]]

\* request bodies of POST /: a complete body, with one change made to it
Core(n, l) ==
  Patch(EmptyBody, [name |-> Some(n), address |-> Some(Addr1),
                    phoneNumber |-> Some(Str1), licenseNumber |-> Some(l)])

PostPatches ==
  {[isActive |-> Some(FALSE)],
   [name |-> None], [address |-> None], [phoneNumber |-> None], [licenseNumber |-> None],
   [name |-> None, phoneNumber |-> None],
   [name |-> Some(NamePadded), licenseNumber |-> Some(Lic1Padded)],
   [address |-> Some(AddrNoStreet)],
   [email |-> Some(EmailBad)],
   [openingHours |-> Some(HoursBadTime)]}

PostBodies ==
  {Core(NameA, Lic1), Core(NameA, Lic2),
   Patch(Core(NameB, Lic2),
         [address |-> Some(Addr2), servicesOffered |-> Some(<<ServiceAb>>),
          openingHours |-> Some(HoursOk), website |-> Some(Web)])}
    \cup {Patch(Core(NameA, Lic1), m) : m \in PostPatches}

\* request bodies of PUT /:id: subsets of the fields
PutPatches ==
  {[name |-> Some(NameB)], [name |-> Some(<<" ">>)],
   [licenseNumber |-> Some(Lic2)], [licenseNumber |-> Some(Lic1Padded)],
   [isActive |-> Some(TRUE)], [isActive |-> Some(FALSE)],
   [address |-> Some(Addr2)], [address |-> Some(AddrNoStreet)],
   [openingHours |-> Some(HoursBadDay)],
   [name |-> Some(NameB), email |-> Some(EmailOk)],
   [name |-> Some(NameA), servicesOffered |-> Some(<<ServiceAb>>)],
   [licenseNumber |-> Some(Lic2), email |-> Some(EmailBad)]}

PutBodies == {EmptyBody} \cup {Patch(EmptyBody, m) : m \in PutPatches}

\* req.params.id: the ids of the documents, one well-formed id no document
\* has, and one string that is no ObjectId
IdInputs ==
  {[wellFormed |-> TRUE, n |-> i] : i \in 1..(MaxRecords + 1)}
    \cup {[wellFormed |-> FALSE, n |-> 0]}

NoId == [wellFormed |-> FALSE, n |-> 0]

\* req.query of GET /
Query(c, v) == [city |-> c, service |-> v]
Queries ==
  {Query(None, None), Query(Some(<<>>), None), Query(Some(<<"B">>), None),
   Query(Some(<<".">>), None), Query(Some(<<"(">>), None),
   Query(None, Some(<<"B">>)), Query(Some(<<"c">>), Some(<<"(">>))}

\* ---------------------------------------------------------------- handlers
MsgNone == ""
MsgDuplicate == "Pharmacy with this license number already exists."
MsgUpdateDuplicate == "Update failed: Duplicate key violation (e.g., license number)."
MsgValidation == "Validation Error"
MsgNotFound == "Pharmacy not found"
MsgInvalidId == "Pharmacy not found (Invalid ID format)"
MsgInactive == "Pharmacy marked as inactive"
MsgServerError == "Server Error"

\* res.status(..).json(..): status, msg, the errors of a validation failure,
\* and the documents of the body
Response(status, msg, errors, body) ==
  [status |-> status, msg |-> msg, errors |-> errors, body |-> body]

\* the catch block of router.post('/')
postCatch(err, errors) ==
  IF err.code = 11000 THEN Response(400, MsgDuplicate, {}, <<>>)
  ELSE IF err.name = "ValidationError" THEN Response(400, MsgValidation, errors, <<>>)
  ELSE Response(500, MsgServerError, {}, <<>>)

\* router.post('/'): the store after the request and the response
postHandler(st, b, t) ==
  LET r == save(st, newPharmacy(b), t) IN
  [store |-> r.store,
   res   |-> IF r.err = NoError
               THEN Response(201, MsgNone, {}, <<r.store[Len(r.store)]>>)
               ELSE postCatch(r.err, r.errors)]

\* the RegExp objects of the filter: new RegExp throws on a bad pattern
filterError(q) ==
  \/ (IsSome(q.city) /\ Val(q.city) # <<>> /\ ~RegExpCompiles(Val(q.city)))
  \/ (IsSome(q.service) /\ Val(q.service) # <<>> /\ ~RegExpCompiles(Val(q.service)))

\* router.get('/'): the responses the request can get
listHandler(st, q) ==
  IF filterError(q)
    THEN {Response(500, MsgServerError, {}, <<>>)}
    ELSE {Response(200, MsgNone, {}, l) : l \in findSorted(st, q)}

\* the catch block of router.get('/:id')
getCatch(err) ==
  IF err.kind = "ObjectId" THEN Response(404, MsgInvalidId, {}, <<>>)
  ELSE Response(500, MsgServerError, {}, <<>>)

\* router.get('/:id')
getHandler(st, id) ==
  LET r == findById(st, id) IN
  IF r.err # NoError THEN getCatch(r.err)
  ELSE IF ~r.found \/ st[id.n].isActive # Some(TRUE)
    THEN Response(404, MsgNotFound, {}, <<>>)
  ELSE Response(200, MsgNone, {}, <<st[id.n]>>)

\* the catch block of router.put('/:id')
putCatch(err, errors) ==
  IF err.code = 11000 THEN Response(400, MsgUpdateDuplicate, {}, <<>>)
  ELSE IF err.name = "ValidationError" THEN Response(400, MsgValidation, errors, <<>>)
  ELSE IF err.kind = "ObjectId" THEN Response(404, MsgInvalidId, {}, <<>>)
  ELSE Response(500, MsgServerError, {}, <<>>)

\* router.put('/:id') up to the return of findById: the response when the
\* handler ends there, status 0 when it goes on
putLookup(st, id) ==
  LET r == findById(st, id) IN
  IF r.err # NoError THEN putCatch(r.err, {})
  ELSE IF ~r.found THEN Response(404, MsgNotFound, {}, <<>>)
  ELSE Response(0, MsgNone, {}, <<>>)

\* router.put('/:id') from the read of req.body on, for the document n found
putHandler(st, n, b, t) ==
  LET r == findByIdAndUpdate(st, n, b, t) IN
  [store |-> r.store,
   res   |-> IF r.err = NoError
               THEN Response(200, MsgNone, {}, <<r.store[n]>>)
               ELSE putCatch(r.err, r.errors)]

\* a catch block with no branch for the failed cast of the id
deleteCatch_noCastBranch(err) == Response(500, MsgServerError, {}, <<>>)

\* the catch block of router.delete('/:id')
deleteCatch(err) ==
  IF err.kind = "ObjectId" THEN Response(404, MsgInvalidId, {}, <<>>)
  ELSE Response(500, MsgServerError, {}, <<>>)

\* router.delete('/:id') up to the return of findById
deleteLookup(st, id) ==
  LET r == findById(st, id) IN
  IF r.err # NoError THEN deleteCatch(r.err)
  ELSE IF ~r.found THEN Response(404, MsgNotFound, {}, <<>>)
  ELSE Response(0, MsgNone, {}, <<>>)

\* router.delete('/:id') from pharmacy.isActive = false on
deleteHandler(st, n, wasActive, t) ==
  [store |-> saveInactive(st, n, wasActive, t),
   res   |-> Response(200, MsgInactive, {}, <<>>)]

Waiting(op, n, wasActive) == [op |-> op, n |-> n, loaded |-> wasActive]
OneOf(w) == SetToBag({w})
IdOf(n) == [wellFormed |-> TRUE, n |-> n]
Sent(op, id, res) == [op |-> op, id |-> id, status |-> res.status, msg |-> res.msg]

Init ==
  /\ store = <<>>
  /\ now = 0
  /\ inflight = EmptyBag
  /\ out = Sent("", NoId, Response(0, MsgNone, {}, <<>>))

Post(b) ==
  /\ LET r == postHandler(store, b, now + 1) IN
       /\ r.store # store => (now < MaxClock /\ Len(store) < MaxRecords)
       /\ store' = r.store
       /\ now' = IF r.store # store THEN now + 1 ELSE now
       /\ out' = Sent("POST", NoId, r.res)
  /\ UNCHANGED inflight

GetAll(q) ==
  /\ \E res \in listHandler(store, q) : out' = Sent("LIST", NoId, res)
  /\ UNCHANGED <<store, now, inflight>>

GetById(id) ==
  /\ out' = Sent("GET", id, getHandler(store, id))
  /\ UNCHANGED <<store, now, inflight>>

PutFind(id) ==
  /\ LET res == putLookup(store, id) IN
       IF res.status # 0
         THEN /\ out' = Sent("PUT", id, res)
              /\ UNCHANGED inflight
         ELSE /\ BagCardinality(inflight) < MaxInFlight
              /\ inflight' = inflight (+) OneOf(Waiting("PUT", id.n, FALSE))
              /\ UNCHANGED out
  /\ UNCHANGED <<store, now>>

PutUpdate(w, b) ==
  /\ BagIn(w, inflight)
  /\ w.op = "PUT"
  /\ LET r == putHandler(store, w.n, b, now + 1) IN
       /\ r.store # store => now < MaxClock
       /\ store' = r.store
       /\ now' = IF r.store # store THEN now + 1 ELSE now
       /\ out' = Sent("PUT", IdOf(w.n), r.res)
  /\ inflight' = inflight (-) OneOf(w)

DeleteFind(id) ==
  /\ LET res == deleteLookup(store, id) IN
       IF res.status # 0
         THEN /\ out' = Sent("DELETE", id, res)
              /\ UNCHANGED inflight
         ELSE /\ BagCardinality(inflight) < MaxInFlight
              /\ inflight' = inflight (+)
                   OneOf(Waiting("DELETE", id.n, store[id.n].isActive = Some(TRUE)))
              /\ UNCHANGED out
  /\ UNCHANGED <<store, now>>

DeleteSave(w) ==
  /\ BagIn(w, inflight)
  /\ w.op = "DELETE"
  /\ LET r == deleteHandler(store, w.n, w.loaded, now + 1) IN
       /\ r.store # store => now < MaxClock
       /\ store' = r.store
       /\ now' = IF r.store # store THEN now + 1 ELSE now
       /\ out' = Sent("DELETE", IdOf(w.n), r.res)
  /\ inflight' = inflight (-) OneOf(w)

Next ==
  \/ \E b \in PostBodies : Post(b)
  \/ \E q \in Queries : GetAll(q)
  \/ \E id \in IdInputs : GetById(id)
  \/ \E id \in IdInputs : PutFind(id)
  \/ \E w \in BagToSet(inflight) : \E b \in PutBodies : PutUpdate(w, b)
  \/ \E id \in IdInputs : DeleteFind(id)
  \/ \E w \in BagToSet(inflight) : DeleteSave(w)

Spec == Init /\ [][Next]_vars

\* ------------------------------------------------------------------ claims
InFlight(op) == {w \in BagToSet(inflight) : w.op = op}
IsActive(d) == d.isActive = Some(TRUE)

\* the body's licenseNumber is, as sent, the licenseNumber of a stored document
LicenseStored(b) ==
  IsSome(b.licenseNumber) /\ \E i \in Ids : store[i].licenseNumber = b.licenseNumber

\* C1: no two stored documents, active or soft-deleted, have the same
\* licenseNumber, whatever requests were served and however they interleaved.
C1_UniqueLicense ==
  \A i, j \in Ids : i # j => store[i].licenseNumber # store[j].licenseNumber

\* two documents are stored, one soft-deleted, and an update of one to the
\* other's licenseNumber has just been refused
C1_Witness ==
  /\ Len(store) = 2
  /\ \E i \in Ids : ~IsActive(store[i])
  /\ out.op = "PUT" /\ out.msg = MsgUpdateDuplicate

\* C2 as claimed: POST / with a body whose licenseNumber is that of a stored
\* document answers the duplicate-key 400, for every body, and stores nothing.
C2_Original ==
  [][\A b \in PostBodies :
       (Post(b) /\ LicenseStored(b)) =>
         /\ out'.status = 400 /\ out'.msg = MsgDuplicate
         /\ store' = store]_vars

\* C2 as amended: such a POST never answers 201 and stores nothing; it answers
\* 400, with the duplicate-key message when the body passes schema validation
\* and with the validation message (the schema is checked before the insert)
\* when it does not.
C2_DuplicateAfterValidation ==
  \A b \in PostBodies :
    LicenseStored(b) =>
      LET r == postHandler(store, b, now + 1) IN
        /\ r.res.status = 400
        /\ r.res.msg =
             IF validationErrors(newPharmacy(b), Fields) = {}
               THEN MsgDuplicate ELSE MsgValidation
        /\ r.store = store

C2_Witness ==
  /\ out.op = "POST" /\ out.status = 400 /\ out.msg = MsgDuplicate
  /\ Len(store) >= 1

RequiredFields == {"name", "address", "phoneNumber", "licenseNumber"}

\* C3: POST / with a body missing name, address, phoneNumber or licenseNumber
\* answers the validation 400 naming every missing field, never 201 or 500,
\* and leaves the stored documents as they were.
C3_MissingFieldRejected ==
  \A b \in PostBodies :
    LET missing == {f \in RequiredFields : b[f] = None}
        r == postHandler(store, b, now + 1)
    IN missing # {} =>
         /\ r.res.status = 400 /\ r.res.msg = MsgValidation
         /\ missing \subseteq r.res.errors
         /\ r.store = store

\* a body missing a field was refused while a document was stored whose
\* licenseNumber the refused bodies share
C3_Witness ==
  /\ out.op = "POST" /\ out.status = 400 /\ out.msg = MsgValidation
  /\ \E i \in Ids : store[i].licenseNumber = Some(Lic1)

\* C4 as claimed: when DELETE /:id answers 200 the document is still stored,
\* with isActive false and its other fields (timestamps aside) as they were,
\* and a GET /:id served next answers 404; no request removes a document.
C4_Original ==
  [][/\ Len(store') >= Len(store)
     /\ \A w \in InFlight("DELETE") :
          (DeleteSave(w) /\ out'.status = 200) =>
            /\ w.n \in 1..Len(store')
            /\ store'[w.n].isActive = Some(FALSE)
            /\ \A f \in Fields \ {"isActive"} : store'[w.n][f] = store[w.n][f]
            /\ getHandler(store', IdOf(w.n)).status = 404]_vars

\* the filter texts read as plain text: s contains q, case-insensitively
ContainsCI(s, q) ==
  \E o \in 0..(Len(s) - Len(q)) :
    \A j \in 1..Len(q) : LowerChar(q[j]) = LowerChar(s[o + j])

Wanted(q) ==
  {i \in Ids :
     /\ IsActive(store[i])
     /\ IsSome(q.city) => ContainsCI(Val(Val(store[i].address).city), Val(q.city))
     /\ IsSome(q.service) =>
          \E k \in 1..Len(Val(store[i].servicesOffered)) :
            ContainsCI(Val(store[i].servicesOffered)[k], Val(q.service))}

ExactlySorted(l, W) ==
  /\ Len(l) = Cardinality(W)
  /\ {l[k] : k \in 1..Len(l)} = {store[i] : i \in W}
  /\ \A k \in 1..(Len(l) - 1) : StrLeq(Val(l[k].name), Val(l[k + 1].name))

\* C5 as claimed: GET / answers 200 with exactly the active documents whose
\* city and services contain the filter texts (case-insensitively), in
\* ascending order of name, whatever the filters.
C5_Original ==
  [][\A q \in Queries :
       GetAll(q) =>
         /\ out'.status = 200
         /\ \A res \in listHandler(store, q) : ExactlySorted(res.body, Wanted(q))]_vars

\* C6: a PUT /:id that answers 200 changes, in the stored document and in the
\* document of the response, only the fields of its body and updatedAt, and
\* changes no other document.
C6_UpdateFrame ==
  \A w \in InFlight("PUT") : \A b \in PutBodies :
    LET r == putHandler(store, w.n, b, now + 1) IN
      r.res.status = 200 =>
        /\ Len(r.store) = Len(store)
        /\ \A f \in DocFields \ (keys(b) \cup {"updatedAt"}) :
             /\ r.store[w.n][f] = store[w.n][f]
             /\ r.res.body[1][f] = store[w.n][f]
        /\ \A j \in Ids : j # w.n => r.store[j] = store[j]

\* a PUT that named only some fields has answered 200 on a document that keeps
\* the licenseNumber and address it was created with
C6_Witness ==
  /\ out.op = "PUT" /\ out.status = 200
  /\ store[out.id.n].name = Some(NameB)
  /\ store[out.id.n].licenseNumber = Some(Lic1)
  /\ Val(store[out.id.n].address).city = Some(CityAb)
  /\ store[out.id.n].updatedAt > store[out.id.n].createdAt

\* a well-formed id no document has
MissingId == IdOf(Len(store) + 1)

\* C7: GET, PUT and DELETE /:id with a malformed id answer 404, as they do for
\* a well-formed id no document has, never 500, and change nothing stored.
C7_MalformedIdNotFound ==
  [][\A id \in IdInputs :
       (~id.wellFormed /\ (GetById(id) \/ PutFind(id) \/ DeleteFind(id))) =>
         /\ out'.status = 404
         /\ store' = store /\ inflight' = inflight
         /\ getHandler(store, MissingId).status = 404
         /\ putLookup(store, MissingId).status = 404
         /\ deleteLookup(store, MissingId).status = 404]_vars

C7_Witness ==
  /\ out.op = "DELETE" /\ ~out.id.wellFormed
  /\ out.status = 404 /\ out.msg = MsgInvalidId
  /\ Len(store) >= 1

\* the body passes the validators of the paths it sets
ValidUpdate(b) == validationErrors(castBody(b), keys(b)) = {}

\* the body would set licenseNumber to the value another document holds
DuplicatesOther(n, b) ==
  /\ IsSome(b.licenseNumber)
  /\ \E j \in Ids : j # n /\ store[j].licenseNumber = castBody(b).licenseNumber

ValidPutBodies == {b \in PutBodies : ValidUpdate(b)}

\* C8: two PUT /:id on one document, both past findById (one pending in this
\* state, the other pending too or arriving now), with valid bodies that
\* duplicate no other document's licenseNumber, both answer 200 in either
\* order of their updates; a field both set ends with the value of the one
\* applied last, a field one alone sets ends with that one's value.
C8_LastWriteWins ==
  \A w \in InFlight("PUT") : \A b1, b2 \in ValidPutBodies :
    (~DuplicatesOther(w.n, b1) /\ ~DuplicatesOther(w.n, b2)) =>
      LET r1 == putHandler(store, w.n, b1, now + 1)
          r2 == putHandler(r1.store, w.n, b2, now + 2)
      IN /\ r1.res.status = 200
         /\ r2.res.status = 200
         /\ \A f \in keys(b2) : r2.store[w.n][f] = castBody(b2)[f]
         /\ \A f \in keys(b1) \ keys(b2) : r2.store[w.n][f] = castBody(b1)[f]

\* one PUT has answered 200 on a document while another PUT on the same
\* document, whose findById came before that update, is still to be applied
C8_Witness ==
  /\ out.op = "PUT" /\ out.status = 200
  /\ BagIn(Waiting("PUT", out.id.n, FALSE), inflight)
  /\ store[out.id.n].updatedAt = now

\* the document satisfies every constraint of the schema
DocValid(d) == validationErrors(d, Fields) = {}

\* C9 as claimed: a PUT /:id that does not answer 200 changes nothing stored;
\* an id no document has gives 404, a body that would duplicate another
\* document's licenseNumber the duplicate-key 400, a body violating a schema
\* constraint the validation 400; after a 200 the document satisfies the schema.
C9_Original ==
  [][/\ \A id \in IdInputs :
          (PutFind(id) /\ id.wellFormed /\ id.n \notin Ids) => out'.status = 404
     /\ \A w \in InFlight("PUT") : \A b \in PutBodies :
          PutUpdate(w, b) =>
            /\ out'.status # 200 => store' = store
            /\ DuplicatesOther(w.n, b) =>
                 (out'.status = 400 /\ out'.msg = MsgUpdateDuplicate)
            /\ ~ValidUpdate(b) => (out'.status = 400 /\ out'.msg = MsgValidation)
            /\ out'.status = 200 => DocValid(store'[w.n])]_vars

\* C9 as amended: the validators run before the store sees the update, so the
\* duplicate-key 400 is the answer to a duplicating body only when the body
\* passes them; a body that fails them gets the validation 400 either way.
C9_ValidationBeforeDuplicate ==
  /\ putLookup(store, MissingId).status = 404
  /\ \A w \in InFlight("PUT") : \A b \in PutBodies :
       LET r == putHandler(store, w.n, b, now + 1) IN
         /\ r.res.status # 200 => r.store = store
         /\ ~ValidUpdate(b) => (r.res.status = 400 /\ r.res.msg = MsgValidation)
         /\ (ValidUpdate(b) /\ DuplicatesOther(w.n, b)) =>
              (r.res.status = 400 /\ r.res.msg = MsgUpdateDuplicate)
         /\ r.res.status = 200 => DocValid(r.store[w.n])

\* a PUT was refused by the validators while both licence numbers were taken,
\* so that its body could have duplicated one as well
C9_Witness ==
  /\ out.op = "PUT" /\ out.status = 400 /\ out.msg = MsgValidation
  /\ Len(store) = 2
  /\ out.id.n = 1 /\ store[2].licenseNumber = Some(Lic2)

\* C10: isActive of a stored document goes from false to true only in a PUT
\* /:id that answers 200 and whose body has isActive true; PUT answers 200 on
\* a soft-deleted document; DELETE on a document that is inactive answers 200
\* and leaves it inactive.
C10_ReactivatedOnlyByPut ==
  [][/\ \A i \in Ids :
          (~IsActive(store[i]) /\ IsActive(store'[i])) =>
            /\ out'.op = "PUT" /\ out'.status = 200 /\ out'.id = IdOf(i)
            /\ \E w \in InFlight("PUT") : \E b \in PutBodies :
                 PutUpdate(w, b) /\ w.n = i /\ b.isActive = Some(TRUE)
     /\ \A w \in InFlight("PUT") :
          (~IsActive(store[w.n]) /\ out'.op = "PUT" /\ out'.status # 200) =>
            \A b \in ValidPutBodies : PutUpdate(w, b) => DuplicatesOther(w.n, b)
     /\ \A w \in InFlight("DELETE") :
          (~IsActive(store[w.n]) /\ out'.op = "DELETE" /\ DeleteSave(w)) =>
            (out'.status = 200 /\ ~IsActive(store'[w.n]))]_vars

\* a PUT has answered 200 on a document that is soft-deleted
C10_Witness ==
  /\ out.op = "PUT" /\ out.status = 200
  /\ ~IsActive(store[out.id.n])
  /\ store[out.id.n].name = Some(NameB)

====
